---- MODULE Spec2Model ----
(***************************************************************************)
(* Model of ib_world_model.py: the recurrent cell S_RNNCell (construction, *)
(* get_config, build, call), the data preparation load_training_data, the  *)
(* reporting hook plot_training_history and the training pipeline          *)
(* generate_world_model.                                                   *)
(*                                                                         *)
(* Tensors are modelled by their shapes; record contents are modelled by   *)
(* tagged values so that rows can be told apart.  Fractions and learning   *)
(* rates are exact rationals <<numerator, denominator>>; validation splits *)
(* are dyadic (k / 2^FBits), for which the floating-point evaluation of    *)
(* int(N * (1 - f)) is exact.                                              *)
(***************************************************************************)
EXTENDS Integers, Sequences, FiniteSets, TLC

VARIABLES
    \* ---- recurrent cell (S_RNNCell) ----
    cell,        \* the fields set by __init__
    weights,     \* the weights allocated by build, in add_weight order
    cellPhase,   \* "none" | "constructed" | "built" | "build_failed"
    input_shape, \* the input shape last handed to build
    states,      \* dimensions of the recurrent state pair [y_prev, si_prev]
    lastCall,    \* dimensions seen by the last call
    t,           \* timesteps applied so far
    restored,    \* the cell rebuilt from get_config
    \* ---- data preparation (load_training_data) ----
    training_data,     \* the records returned by generate_dataset
    validation_split,  \* the fraction f, a rational
    shuffled_indices,  \* the permutation drawn by np.random.shuffle
    training_input, validation_input, training_output, validation_output,
    dataPhase,         \* "none" | "ready" | "loaded" | "failed"
    \* ---- pipeline (generate_world_model) ----
    pc,          \* position in generate_world_model
    clean, strict_clean,  \* the arguments of generate_world_model
    cfg,         \* generation.past_window, generation.future_window and
                 \* learning.validation_split of the configuration
    env,         \* the local variables read from the configuration later on
    files,       \* contents of the three output paths
    artifact0,   \* the artifact as found when the run started
    log,         \* calls made to collaborators and to the model, in order
    stage,       \* index of the current learning-rate stage
    loss, mae,   \* the cumulative history buffers
    result,      \* what the run returned
    error        \* the failure that ended the run

cellVars == <<cell, weights, cellPhase, input_shape, states, lastCall, t, restored>>
dataVars == <<training_data, validation_split, shuffled_indices, training_input,
              validation_input, training_output, validation_output, dataPhase>>
pipeVars == <<pc, clean, strict_clean, cfg, env, files, artifact0, log, stage, loss, mae, result, error>>
vars == <<cellVars, dataVars, pipeVars>>

\* ---------------------------------------------------------------- bounds
MaxDim == 2      \* largest units / state_size / z_dim / a_dim
MaxT == 2        \* timesteps applied to a built cell, sequence lengths
MaxN == 3        \* records in a dataset
FBits == 2       \* validation splits are k / 2^FBits
MaxSteps == 3    \* learning_rate_steps
MaxEpochs == 1   \* epochs per stage
MaxState == 1    \* learning.state_dim in the pipeline
MaxRecs == 1     \* records in the pipeline's dataset
MaxPipeDim == 1  \* largest Z_DIM / A_DIM / Y_DIM in the pipeline's dataset

RECURSIVE Pow2(_)
Pow2(n) == IF n = 0 THEN 1 ELSE 2 * Pow2(n - 1)

Range(s) == {s[i] : i \in 1..Len(s)}

None == [none |-> TRUE]

\* ================================================================ S_RNNCell

\* __init__: the fields of a freshly constructed cell
S_RNNCell(units, state_size, self_input, z_dim, a_dim) ==
    [units |-> units,
     state_size |-> <<units, state_size>>,
     self_input |-> self_input,
     output_size |-> units,
     z_dim |-> z_dim,
     a_dim |-> a_dim]

\* get_config with state_size reported as the whole pair's first entry
get_config_units(c) ==
    [units |-> c.units,
     state_size |-> c.state_size[1],
     self_input |-> c.self_input,
     z_dim |-> c.z_dim,
     a_dim |-> c.a_dim]

\* get_config: state_size[1] in the source is the second entry of the pair
get_config(c) ==
    [units |-> c.units,
     state_size |-> c.state_size[2],
     self_input |-> c.self_input,
     z_dim |-> c.z_dim,
     a_dim |-> c.a_dim]

\* Layer.from_config: cls(**config), i.e. __init__ applied to the snapshot
from_config(config) ==
    S_RNNCell(config.units, config.state_size, config.self_input,
              config.z_dim, config.a_dim)

\* the row count of C without the self-input row
CRows_noSelf(c) == c.z_dim

\* the row count of C (line 60)
CRows(c) == c.z_dim + (IF c.self_input THEN 1 ELSE 0)

\* the add_weight calls of build, in order
BuildWeights(c) ==
    LET s == c.state_size[2] IN
    << [name |-> "A", shape |-> <<s, s>>],
       [name |-> "B", shape |-> <<s, s>>],
       [name |-> "C", shape |-> <<CRows(c), s>>],
       [name |-> "D", shape |-> <<c.a_dim, s>>],
       [name |-> "E", shape |-> <<s, c.units>>],
       [name |-> "bias", shape |-> <<s>>] >>

\* the two assertions of build
BuildAccepts(c, shape) ==
    /\ Len(shape) = 2
    /\ shape[2] = c.z_dim + c.a_dim

\* build: the weights after the call and whether it succeeded
build(c, shape) ==
    IF BuildAccepts(c, shape)
    THEN [ok |-> TRUE, weights |-> BuildWeights(c)]
    ELSE [ok |-> FALSE, weights |-> << >>]

Shape(w, name) == (CHOOSE e \in Range(w) : e.name = name).shape

\* K.dot of a [batch, n] tensor with an [r, m] matrix: m, or -1 when n # r
Dot(n, shape) == IF n >= 0 /\ n = shape[1] THEN shape[2] ELSE -1

\* elementwise sum of two [batch, n] tensors (or with a [n] bias)
Plus(n, m) == IF n >= 0 /\ n = m THEN n ELSE -1

\* call: one timestep on an input of feature size inLen and a state pair st
call(c, w, inLen, st) ==
    LET y_prev == st[1]
        si_prev == st[2]
        z0 == IF inLen < c.z_dim THEN inLen ELSE c.z_dim
        z == IF c.self_input THEN z0 + y_prev ELSE z0
        a == IF inLen < c.z_dim THEN 0 ELSE inLen - c.z_dim
        s == Plus(Dot(si_prev, Shape(w, "A")), Dot(z, Shape(w, "C")))
        si == Plus(Plus(Dot(s, Shape(w, "B")), Dot(a, Shape(w, "D"))),
                   Shape(w, "bias")[1])
        y == Dot(si, Shape(w, "E"))
    IN [ok |-> y >= 0, z |-> z, a |-> a, y |-> y, states |-> <<y, si>>]

\* ---- the cell as a state machine

Dims == 1..MaxDim

\* input shapes handed to build: [batch, features], and two of the wrong rank
InputShapes ==
    {<<1, f>> : f \in 0..(2 * MaxDim + 1)} \cup {<<1>>, <<1, 1, 1>>}

NoCall == [ok |-> TRUE, z |-> 0, a |-> 0, y |-> 0, states |-> <<0, 0>>]

DataIdle ==
    /\ training_data = << >>
    /\ validation_split = <<0, 1>>
    /\ shuffled_indices = << >>
    /\ training_input = << >>
    /\ validation_input = << >>
    /\ training_output = << >>
    /\ validation_output = << >>
    /\ dataPhase = "none"

PipeIdle ==
    /\ pc = "none"
    /\ clean = FALSE
    /\ strict_clean = FALSE
    /\ cfg = None
    /\ env = None
    /\ files = None
    /\ artifact0 = "absent"
    /\ log = << >>
    /\ stage = 0
    /\ loss = << >>
    /\ mae = << >>
    /\ result = "none"
    /\ error = "none"

InitCell ==
    /\ \E units \in Dims, state_size \in Dims, self_input \in BOOLEAN,
          z_dim \in Dims, a_dim \in Dims :
          cell = S_RNNCell(units, state_size, self_input, z_dim, a_dim)
    /\ weights = << >>
    /\ cellPhase = "constructed"
    /\ input_shape = << >>
    /\ states = <<0, 0>>
    /\ lastCall = NoCall
    /\ t = 0
    /\ restored = None
    /\ DataIdle
    /\ PipeIdle

\* the wrapping RNN layer builds the cell with the input's shape and
\* initialises the state pair from cell.state_size
Build ==
    /\ cellPhase = "constructed"
    /\ \E shape \in InputShapes :
          LET b == build(cell, shape) IN
          /\ input_shape' = shape
          /\ weights' = b.weights
          /\ cellPhase' = IF b.ok THEN "built" ELSE "build_failed"
          /\ states' = IF b.ok THEN cell.state_size ELSE states
    /\ UNCHANGED <<cell, lastCall, t, restored, dataVars, pipeVars>>

\* one timestep of the wrapping RNN layer
Call ==
    /\ cellPhase = "built"
    /\ t < MaxT
    /\ lastCall.ok
    /\ LET r == call(cell, weights, input_shape[2], states) IN
          /\ lastCall' = r
          /\ states' = IF r.ok THEN r.states ELSE states
          /\ t' = IF r.ok THEN t + 1 ELSE t
    /\ UNCHANGED <<cell, weights, cellPhase, input_shape, restored, dataVars, pipeVars>>

\* model reload: a new cell from the configuration snapshot
Reload ==
    /\ cellPhase \in {"constructed", "built"}
    /\ restored = None
    /\ restored' = from_config(get_config(cell))
    /\ UNCHANGED <<cell, weights, cellPhase, input_shape, states, lastCall, t,
                   dataVars, pipeVars>>

NextCell == Build \/ Call \/ Reload

SpecCell == InitCell /\ [][NextCell]_vars

\* ======================================================= load_training_data

\* one field of one record: a [T, dim] array, shape = <<T, dim>>; the entries
\* are tagged with the field and the record's payload
Field(name, shape, payload) ==
    [tt \in 1..shape[1] |-> [k \in 1..shape[2] |-> <<name, payload, tt, k>>]]

\* a structured array: dtype holds the shapes of the fields z, a, y in
\* order, recs the records
Dataset(sz, sa, sy, payloads) ==
    [dtype |-> <<sz, sa, sy>>,
     recs |-> [n \in 1..Len(payloads) |->
                 [z |-> Field("z", sz, payloads[n]),
                  a |-> Field("a", sa, payloads[n]),
                  y |-> Field("y", sy, payloads[n])]]]

\* np.concatenate((z, a), axis=2) needs z and a to agree on the other axes
ConcatOk(data) == data.dtype[1][1] = data.dtype[2][1]

\* one row of np.concatenate((z, a), axis=2)
ConcatZA(rec) == [tt \in 1..Len(rec.z) |-> rec.z[tt] \o rec.a[tt]]

\* the split index computed from the fraction itself
SplitIndex_fraction(n, f) == (n * f[1]) \div f[2]

\* int(len(training_input) * (1 - validation_split)), f = <<num, den>>
SplitIndex(n, f) == (n * (f[2] - f[1])) \div f[2]

\* x[shuffled_indices]
Take(x, idx) == [j \in 1..Len(idx) |-> x[idx[j]]]

\* the results np.random.shuffle can leave in np.arange(n) (1-based here)
Shuffles(n) ==
    {p \in [1..n -> 1..n] : \A i, j \in 1..n : p[i] = p[j] => i = j}

\* lines 109-119, given the dataset and the permutation drawn
load_training_data(data, f, idx) ==
    LET inp == Take([n \in 1..Len(data.recs) |-> ConcatZA(data.recs[n])], idx)
        out == Take([n \in 1..Len(data.recs) |-> data.recs[n].y], idx)
        i == SplitIndex(Len(inp), f)
    IN [training_input |-> SubSeq(inp, 1, i),
        validation_input |-> SubSeq(inp, i + 1, Len(inp)),
        training_output |-> SubSeq(out, 1, i),
        validation_output |-> SubSeq(out, i + 1, Len(out))]

\* ---- data preparation as a state machine

Payloads(n) == [1..n -> 0..1]

CellIdle ==
    /\ cell = None
    /\ weights = << >>
    /\ cellPhase = "none"
    /\ input_shape = << >>
    /\ states = <<0, 0>>
    /\ lastCall = NoCall
    /\ t = 0
    /\ restored = None

InitData ==
    /\ \E n \in 0..MaxN, tz \in 1..MaxT, ta \in 1..MaxT, zd \in 1..MaxDim :
          \E p \in Payloads(n) :
             training_data = Dataset(<<tz, zd>>, <<ta, 1>>, <<tz, 1>>, p)
    /\ \E k \in 0..(Pow2(FBits) - 1) : validation_split = <<k, Pow2(FBits)>>
    /\ shuffled_indices = << >>
    /\ training_input = << >>
    /\ validation_input = << >>
    /\ training_output = << >>
    /\ validation_output = << >>
    /\ dataPhase = "ready"
    /\ CellIdle
    /\ PipeIdle

\* load_training_data on a dataset whose fields can be concatenated
LoadTrainingData ==
    /\ dataPhase = "ready"
    /\ ConcatOk(training_data)
    /\ \E idx \in Shuffles(Len(training_data.recs)) :
          LET r == load_training_data(training_data, validation_split, idx) IN
          /\ shuffled_indices' = idx
          /\ training_input' = r.training_input
          /\ validation_input' = r.validation_input
          /\ training_output' = r.training_output
          /\ validation_output' = r.validation_output
    /\ dataPhase' = "loaded"
    /\ UNCHANGED <<training_data, validation_split, cellVars, pipeVars>>

\* np.concatenate raises when z and a differ in sequence length
LoadTrainingDataFails ==
    /\ dataPhase = "ready"
    /\ ~ConcatOk(training_data)
    /\ dataPhase' = "failed"
    /\ UNCHANGED <<training_data, validation_split, shuffled_indices,
                   training_input, validation_input, training_output,
                   validation_output, cellVars, pipeVars>>

NextData == LoadTrainingData \/ LoadTrainingDataFails

SpecData == InitData /\ [][NextData]_vars

\* ==================================================== plot_training_history

\* the configured path a curve titled `title` is written to (lines 123-126)
PlotPath(title) ==
    IF title = "loss" THEN "training_loss_file" ELSE "training_mae_file"

\* plt.plot(history, label=title); plt.savefig(write_to)
plot_training_history(fs, history, title) ==
    IF PlotPath(title) = "training_loss_file"
    THEN [fs EXCEPT !.training_loss_file = [label |-> title, data |-> history]]
    ELSE [fs EXCEPT !.training_mae_file = [label |-> title, data |-> history]]

\* ===================================================== generate_world_model

NoFile == [label |-> "", data |-> << >>]

\* an entry of the call log
Ev(op) == [op |-> op, stage |-> -1, lr |-> <<0, 1>>, path |-> "",
           title |-> "", force |-> <<FALSE, FALSE>>, rows |-> -1]

Count(op) == Cardinality({i \in 1..Len(log) : log[i].op = op})

\* the reuse test with the negation dropped
ReuseArtifact_dropNot(art, c, sc) == art # "absent" /\ (c \/ sc)

\* os.path.isfile(write_to) and not (clean or strict_clean)
ReuseArtifact(art, c, sc) == art # "absent" /\ ~(c \/ sc)

\* 0 < VALIDATION_SPLIT and VALIDATION_SPLIT < 1, for f = <<num, den>>, den > 0
SplitValid(f) == 0 < f[1] /\ f[1] < f[2]

\* the force flags with clean passed in the first place
DatasetForce_clean(c, sc) == <<c, sc>>

\* the two force flags handed to generate_dataset (line 108)
DatasetForce(c, sc) == <<sc, sc>>

\* the assertions with past_window allowed to be zero
ShapeCheck_pastZero(dtype, past, future) ==
    IF ~(0 < dtype[1][2]) THEN "Z_DIM"
    ELSE IF ~(0 < dtype[2][2]) THEN "A_DIM"
    ELSE IF ~(0 < dtype[3][2]) THEN "Y_DIM"
    ELSE IF ~(0 <= past) THEN "past_window"
    ELSE IF ~(0 <= future) THEN "future_window"
    ELSE IF \E i \in 1..Len(dtype) : dtype[i][1] # past + future
         THEN "sequence_length"
    ELSE "ok"

\* the assertions of lines 168-180 in order: the first that fails, or "ok"
ShapeCheck(dtype, past, future) ==
    IF ~(0 < dtype[1][2]) THEN "Z_DIM"
    ELSE IF ~(0 < dtype[2][2]) THEN "A_DIM"
    ELSE IF ~(0 < dtype[3][2]) THEN "Y_DIM"
    ELSE IF ~(0 < past) THEN "past_window"
    ELSE IF ~(0 <= future) THEN "future_window"
    ELSE IF \E i \in 1..Len(dtype) : dtype[i][1] # past + future
         THEN "sequence_length"
    ELSE "ok"

\* the stage rates starting one halving too late
StageRate_offByOne(base, i) == <<base[1], base[2] * Pow2(i + 1)>>

\* base_lr * (0.5 ** exp) as a rational
StageRate(base, i) == <<base[1], base[2] * Pow2(i)>>

\* the statement order with the model saved before it is evaluated
StepAfter_saveFirst(p) ==
    CASE p = "plot_loss" -> "plot_mae"
      [] p = "plot_mae" -> "save"
      [] p = "save" -> "evaluate"
      [] p = "evaluate" -> "returned"

\* the statement order of lines 203-213
StepAfter(p) ==
    CASE p = "plot_loss" -> "plot_mae"
      [] p = "plot_mae" -> "evaluate"
      [] p = "evaluate" -> "save"
      [] p = "save" -> "returned"

\* history.history[metric] of one fit call: one entry per epoch
History(metric, i, epochs) == [e \in 1..epochs |-> <<metric, i, e>>]

\* ---- inputs

Artifacts == {"absent", "valid", "corrupt"}
SplitChoices == {<<k, 2>> : k \in -1..3}
PastChoices == 0..MaxT
FutureChoices == -1..1
PipeDims == 0..MaxPipeDim
PipeLens == 1..MaxT
BaseRates == {<<1, 100>>, <<1, 10>>}

NoEnv == [STATE_DIM |-> 0, SELF_INPUT |-> FALSE, base_lr |-> <<0, 1>>,
          steps |-> 0, epochs |-> 0]

Init ==
    /\ pc = "start"
    /\ clean \in BOOLEAN
    /\ strict_clean \in BOOLEAN
    /\ \E vs \in SplitChoices, past \in PastChoices, future \in FutureChoices :
          cfg = [validation_split |-> vs, past_window |-> past,
                 future_window |-> future]
    /\ env = NoEnv
    /\ artifact0 \in Artifacts
    /\ files = [model_output_file |-> artifact0,
                training_loss_file |-> NoFile,
                training_mae_file |-> NoFile]
    /\ log = << >>
    /\ stage = 0
    /\ loss = << >>
    /\ mae = << >>
    /\ result = "none"
    /\ error = "none"
    /\ CellIdle
    /\ DataIdle

Frozen == <<clean, strict_clean, cfg, artifact0>>

\* lines 152-153: the artifact is there and no rebuild is asked for
Reuse ==
    /\ pc = "start"
    /\ ReuseArtifact(files.model_output_file, clean, strict_clean)
    /\ log' = Append(log, [Ev("load_model") EXCEPT !.path = "model_output_file"])
    /\ IF files.model_output_file = "corrupt"
       THEN /\ pc' = "raised"
            /\ error' = "load_model"
            /\ result' = result
       ELSE /\ pc' = "returned"
            /\ error' = error
            /\ result' = "loaded"
    /\ UNCHANGED <<Frozen, env, files, stage, loss, mae, cellVars, dataVars>>

\* lines 152-159: no reuse; seed, then the assertion on validation_split
Begin ==
    /\ pc = "start"
    /\ ~ReuseArtifact(files.model_output_file, clean, strict_clean)
    /\ IF SplitValid(cfg.validation_split)
       THEN /\ pc' = "load"
            /\ error' = error
       ELSE /\ pc' = "aborted"
            /\ error' = "validation_split"
    /\ UNCHANGED <<Frozen, env, files, log, stage, loss, mae, result,
                   cellVars, dataVars>>

\* lines 161-163: load_training_data(cfg, strict_clean, VALIDATION_SPLIT)
Load ==
    /\ pc = "load"
    /\ log' = Append(log, [Ev("generate_dataset") EXCEPT
                             !.force = DatasetForce(clean, strict_clean)])
    /\ \/ \* generate_dataset raises
          /\ pc' = "raised"
          /\ error' = "generate_dataset"
          /\ UNCHANGED dataVars
       \/ \* generate_dataset returns records that cannot be concatenated
          /\ \E tz \in PipeLens, ta \in PipeLens, ty \in PipeLens,
                zd \in PipeDims, ad \in PipeDims, yd \in PipeDims,
                n \in 0..MaxRecs :
                /\ tz # ta
                /\ training_data' = Dataset(<<tz, zd>>, <<ta, ad>>, <<ty, yd>>,
                                            [j \in 1..n |-> 0])
          /\ dataPhase' = "failed"
          /\ pc' = "raised"
          /\ error' = "concatenate"
          /\ UNCHANGED <<validation_split, shuffled_indices, training_input,
                         validation_input, training_output, validation_output>>
       \/ \* generate_dataset returns, and the data is shuffled and split
          /\ \E tz \in PipeLens, ty \in PipeLens,
                zd \in PipeDims, ad \in PipeDims, yd \in PipeDims,
                n \in 0..MaxRecs :
                LET data == Dataset(<<tz, zd>>, <<tz, ad>>, <<ty, yd>>,
                                    [j \in 1..n |-> 0])
                IN /\ training_data' = data
                   /\ \E idx \in Shuffles(n) :
                         LET r == load_training_data(data, cfg.validation_split, idx)
                         IN /\ shuffled_indices' = idx
                            /\ training_input' = r.training_input
                            /\ validation_input' = r.validation_input
                            /\ training_output' = r.training_output
                            /\ validation_output' = r.validation_output
          /\ validation_split' = cfg.validation_split
          /\ dataPhase' = "loaded"
          /\ pc' = "check"
          /\ error' = error
    /\ UNCHANGED <<Frozen, env, files, stage, loss, mae, result, cellVars>>

\* lines 165-190: the assertions on the data, then the cell and the model
Check ==
    /\ pc = "check"
    /\ LET dtype == training_data.dtype
           verdict == ShapeCheck(dtype, cfg.past_window, cfg.future_window)
       IN IF verdict # "ok"
          THEN /\ pc' = "aborted"
               /\ error' = verdict
               /\ UNCHANGED <<env, cell, cellPhase>>
          ELSE /\ \E sd \in 1..MaxState, si \in BOOLEAN, lr \in BaseRates,
                     st \in 0..MaxSteps, ep \in 1..MaxEpochs :
                     /\ env' = [STATE_DIM |-> sd, SELF_INPUT |-> si,
                                base_lr |-> lr, steps |-> st, epochs |-> ep]
                     /\ cell' = S_RNNCell(dtype[3][2], sd, si,
                                          dtype[1][2], dtype[2][2])
               /\ cellPhase' = "constructed"
               /\ pc' = "loop"
               /\ error' = error
    /\ UNCHANGED <<Frozen, files, log, stage, loss, mae, result, weights,
                   input_shape, states, lastCall, t, restored, dataVars>>

\* lines 191-193: the next stage's optimizer and compile
Compile ==
    /\ pc = "loop"
    /\ stage < env.steps
    /\ log' = Append(log, [Ev("compile") EXCEPT
                             !.stage = stage,
                             !.lr = StageRate(env.base_lr, stage)])
    /\ pc' = "fit"
    /\ UNCHANGED <<Frozen, env, files, stage, loss, mae, result, error,
                   cellVars, dataVars>>

\* lines 194-200: fit, then the histories are appended
Fit ==
    /\ pc = "fit"
    /\ log' = Append(log, [Ev("fit") EXCEPT !.stage = stage,
                                            !.rows = Len(training_input)])
    /\ LET shape == <<1, cell.z_dim + cell.a_dim>>
           b == IF cellPhase = "built"
                THEN [ok |-> TRUE, weights |-> weights]
                ELSE build(cell, shape)
           r == IF b.ok THEN call(cell, b.weights, shape[2], cell.state_size)
                ELSE NoCall
       IN /\ input_shape' = shape
          /\ weights' = b.weights
          /\ cellPhase' = IF b.ok THEN "built" ELSE "build_failed"
          /\ lastCall' = r
          /\ states' = cell.state_size
          /\ \/ \* the cell cannot be applied, or the engine fails
                /\ pc' = "raised"
                /\ error' = "fit"
                /\ UNCHANGED <<stage, loss, mae>>
             \/ /\ b.ok /\ r.ok
                /\ loss' = loss \o History("loss", stage, env.epochs)
                /\ mae' = mae \o History("mean_absolute_error", stage, env.epochs)
                /\ stage' = stage + 1
                /\ pc' = "loop"
                /\ error' = error
    /\ UNCHANGED <<Frozen, env, files, result, cell, t, restored, dataVars>>

\* where a step of lines 203-213 leaves the run
Advance(p) ==
    /\ pc' = StepAfter(p)
    /\ result' = IF StepAfter(p) = "returned" THEN "trained" ELSE result
    /\ error' = error

Raise(what) ==
    /\ pc' = "raised"
    /\ error' = what
    /\ result' = result

\* lines 203-204, once the loop is over: the summary, then
\* plot_training_history(cfg, loss, 'train loss')
PlotLoss ==
    /\ pc = "loop"
    /\ stage >= env.steps
    /\ log' = Append(log, [Ev("plot") EXCEPT !.title = "train loss",
                                             !.path = PlotPath("train loss")])
    /\ \/ /\ files' = plot_training_history(files, loss, "train loss")
          /\ Advance("plot_loss")
       \/ /\ Raise("plot")
          /\ UNCHANGED files
    /\ UNCHANGED <<Frozen, env, stage, loss, mae, cellVars, dataVars>>

\* line 205: plot_training_history(cfg, mae, 'mean_absolute_error')
PlotMae ==
    /\ pc = "plot_mae"
    /\ log' = Append(log, [Ev("plot") EXCEPT !.title = "mean_absolute_error",
                                             !.path = PlotPath("mean_absolute_error")])
    /\ \/ /\ files' = plot_training_history(files, mae, "mean_absolute_error")
          /\ Advance("plot_mae")
       \/ /\ Raise("plot")
          /\ UNCHANGED files
    /\ UNCHANGED <<Frozen, env, stage, loss, mae, cellVars, dataVars>>

\* line 207: evaluation.evaluate_world_model on the validation partition
Evaluate ==
    /\ pc = "evaluate"
    /\ log' = Append(log, [Ev("evaluate") EXCEPT !.rows = Len(validation_input)])
    /\ \/ Advance("evaluate")
       \/ Raise("evaluate")
    /\ UNCHANGED <<Frozen, env, files, stage, loss, mae, cellVars, dataVars>>

\* lines 209-211: ensure_can_write(write_to); model.save(write_to)
Save ==
    /\ pc = "save"
    /\ \/ /\ log' = Append(log, [Ev("save") EXCEPT !.path = "model_output_file"])
          /\ files' = [files EXCEPT !.model_output_file = "trained"]
          /\ Advance("save")
       \/ \* ensure_can_write raises, nothing is written
          /\ log' = Append(log, [Ev("ensure_can_write") EXCEPT
                                   !.path = "model_output_file"])
          /\ Raise("save")
          /\ UNCHANGED files
    /\ UNCHANGED <<Frozen, env, stage, loss, mae, cellVars, dataVars>>

Next ==
    \/ Reuse \/ Begin \/ Load \/ Check \/ Compile \/ Fit
    \/ PlotLoss \/ PlotMae \/ Evaluate \/ Save

Spec == Init /\ [][Next]_vars

\* ==================================================================== claims

ReusePath == artifact0 # "absent" /\ ~clean /\ ~strict_clean

InitialFiles == [model_output_file |-> artifact0,
                 training_loss_file |-> NoFile,
                 training_mae_file |-> NoFile]

\* the learning-rate loop has been left normally
AfterLoop == Count("plot") >= 1 \/ (pc = "loop" /\ stage >= env.steps)

CompilesBefore(i) == Cardinality({j \in 1..(i - 1) : log[j].op = "compile"})

\* C1: when a file exists at model_output_file and neither clean nor
\* strict_clean is set, the run only loads the model from that file: it
\* returns the loaded model (a file that cannot be loaded makes load_model
\* raise), and there is no dataset generation or loading, no fit, no plot, no
\* evaluation and no write to the artifact path, which is left unchanged.
C1_ReuseLeavesEverythingAlone ==
    (ReusePath /\ pc # "start") =>
        /\ pc \in {"returned", "raised"}
        /\ Len(log) = 1
        /\ log[1].op = "load_model"
        /\ log[1].path = "model_output_file"
        /\ dataPhase = "none"
        /\ training_input = << >>
        /\ cellPhase = "none"
        /\ files = InitialFiles
        /\ (pc = "returned" => result = "loaded")
        /\ (pc = "raised" => error = "load_model" /\ artifact0 = "corrupt")
        /\ (artifact0 = "valid" => pc = "returned")

C1_Witness ==
    /\ pc = "returned"
    /\ result = "loaded"
    /\ artifact0 = "valid"
    /\ ~clean /\ ~strict_clean
    /\ Count("load_model") = 1

\* C2: the run takes the training path exactly when clean or strict_clean is
\* set or no artifact exists (and then a run that returns has trained the
\* model through all its stages and returns the trained model); the dataset
\* collaborator is called at most once and both of its force flags equal
\* strict_clean, so clean alone retrains without forcing regeneration.
C2_ForceLevels ==
    pc # "start" =>
        /\ (Count("load_model") = 1) <=> ReusePath
        /\ Count("load_model") <= 1
        /\ Count("generate_dataset") <= 1
        /\ \A i \in 1..Len(log) :
              log[i].op = "generate_dataset" =>
                  log[i].force = <<strict_clean, strict_clean>>
        /\ (clean \/ strict_clean \/ artifact0 = "absent") =>
              /\ result # "loaded"
              /\ (pc \notin {"load", "aborted"} \/ dataPhase # "none")
                    => Count("generate_dataset") = 1
              /\ (pc = "aborted" /\ error = "validation_split")
                    => Count("generate_dataset") = 0
              /\ pc = "returned" =>
                    /\ result = "trained"
                    /\ Count("fit") = env.steps
                    /\ files.model_output_file = "trained"

C2_Witness ==
    /\ pc = "returned"
    /\ result = "trained"
    /\ artifact0 = "valid"
    /\ clean /\ ~strict_clean
    /\ Count("fit") >= 1
    /\ \E i \in 1..Len(log) :
          log[i].op = "generate_dataset" /\ log[i].force = <<FALSE, FALSE>>

\* C3: the stages are compiled in index order 0, 1, ..., each compile at
\* rate base_lr * 0.5^i, each compile immediately followed by that stage's
\* fit and each fit immediately preceded by its compile; when the loop is
\* left there have been exactly `steps` stages; for base_lr = 0.01 and
\* steps = 3 the rates are 0.01, 0.005, 0.0025.
C3_StageSchedule ==
    /\ \A i \in 1..Len(log) :
          log[i].op = "compile" =>
              /\ log[i].stage = CompilesBefore(i)
              /\ log[i].stage < env.steps
              /\ log[i].lr[1] * env.base_lr[2] * Pow2(log[i].stage)
                    = env.base_lr[1] * log[i].lr[2]
              /\ i < Len(log) =>
                    log[i + 1].op = "fit" /\ log[i + 1].stage = log[i].stage
              /\ i = Len(log) => pc = "fit"
    /\ \A i \in 1..Len(log) :
          log[i].op = "fit" =>
              /\ i > 1
              /\ log[i - 1].op = "compile"
              /\ log[i - 1].stage = log[i].stage
    /\ AfterLoop =>
          /\ Count("compile") = env.steps
          /\ Count("fit") = env.steps
    /\ (AfterLoop /\ env.base_lr = <<1, 100>> /\ env.steps = 3) =>
          LET rates == [k \in 1..3 |->
                          log[CHOOSE i \in 1..Len(log) :
                                 log[i].op = "compile" /\ log[i].stage = k - 1].lr]
          IN /\ rates[1][1] * 100 = 1 * rates[1][2]
             /\ rates[2][1] * 1000 = 5 * rates[2][2]
             /\ rates[3][1] * 10000 = 25 * rates[3][2]

C3_Witness ==
    /\ pc = "returned"
    /\ result = "trained"
    /\ env.steps = 3
    /\ env.base_lr = <<1, 100>>
    /\ Count("fit") = 3

FieldsOf(dtype) == 1..Len(dtype)

\* one of the fatal conditions of the configuration or of the loaded data
FatalCondition ==
    \/ ~(0 < cfg.validation_split[1]
         /\ cfg.validation_split[1] < cfg.validation_split[2])
    \/ cfg.past_window <= 0
    \/ cfg.future_window < 0
    \/ /\ dataPhase \in {"loaded", "failed"}
       /\ \/ \E i \in FieldsOf(training_data.dtype) :
                training_data.dtype[i][2] <= 0
          \/ \E i \in FieldsOf(training_data.dtype) :
                training_data.dtype[i][1] # cfg.past_window + cfg.future_window

TrainingEffects ==
    {i \in 1..Len(log) :
        log[i].op \in {"compile", "fit", "plot", "evaluate", "save",
                       "ensure_can_write"}}

\* C5 as stated: whenever a fatal condition holds the run aborts, so no run
\* in which one holds returns.
C5_FatalAlwaysAborts ==
    FatalCondition => pc # "returned"

\* C5 amended: in a run that does not take the reuse path, a fatal condition
\* stops the run at the checks: it never gets past them and returns nothing,
\* and an abort names the first check that fails.  In every run in which a
\* fatal condition holds no stage is compiled or fitted, nothing is plotted
\* or evaluated and nothing is written to any output path.  (On the reuse
\* path the checks are not made and the loaded model is returned.)
C5_FatalAbortsTrainingPath ==
    /\ FatalCondition =>
          /\ TrainingEffects = {}
          /\ files = InitialFiles
          /\ result # "trained"
          /\ cellPhase = "none"
    /\ (FatalCondition /\ ~ReusePath) =>
          /\ pc \in {"start", "load", "check", "aborted", "raised"}
          /\ pc = "raised" => error \in {"generate_dataset", "concatenate"}
          /\ pc = "check" => ShapeCheck(training_data.dtype, cfg.past_window,
                                        cfg.future_window) # "ok"
          /\ result = "none"
    /\ pc = "aborted" =>
          /\ FatalCondition
          /\ ~ReusePath
          /\ error = "validation_split" => Len(log) = 0
          /\ error = "Z_DIM" => training_data.dtype[1][2] <= 0
          /\ error = "A_DIM" => training_data.dtype[2][2] <= 0
          /\ error = "Y_DIM" => training_data.dtype[3][2] <= 0
          /\ error = "past_window" => cfg.past_window <= 0
          /\ error = "future_window" => cfg.future_window < 0
          /\ error = "sequence_length" =>
                \E i \in FieldsOf(training_data.dtype) :
                   training_data.dtype[i][1] # cfg.past_window + cfg.future_window

C5_Witness ==
    /\ pc = "aborted"
    /\ error = "past_window"
    /\ cfg.past_window = 0
    /\ dataPhase = "loaded"
    /\ Count("generate_dataset") = 1

\* C7: after a successful training run the loss curve has been written to
\* training_loss_file and the metric curve to training_mae_file.
C7_BothCurvesWritten ==
    (pc = "returned" /\ result = "trained") =>
        /\ files.training_loss_file = [label |-> "train loss", data |-> loss]
        /\ files.training_mae_file =
              [label |-> "mean_absolute_error", data |-> mae]

\* what the code does instead: both curves go to training_mae_file, the
\* metric curve last, and training_loss_file is never written
C7_BothCurvesToMaeFile ==
    (pc = "returned" /\ result = "trained") =>
        /\ files.training_loss_file = NoFile
        /\ files.training_mae_file =
              [label |-> "mean_absolute_error", data |-> mae]
        /\ \A i \in 1..Len(log) :
              log[i].op = "plot" => log[i].path = "training_mae_file"

\* C10: the artifact is written at most once, by the save that ends the run,
\* after exactly `steps` fits, both plots and the evaluation; a run that
\* fails (in plotting, in the evaluation or anywhere else) has written no
\* artifact, and a run that returns a trained model has written it.
C10_SaveLastAndOnce ==
    /\ Count("save") <= 1
    /\ \A i \in 1..Len(log) :
          log[i].op = "save" =>
              /\ i = Len(log)
              /\ Count("compile") = env.steps
              /\ Count("fit") = env.steps
              /\ Count("plot") = 2
              /\ Count("evaluate") = 1
              /\ \A j \in 1..(i - 1) :
                    log[j].op \in {"generate_dataset", "compile", "fit",
                                   "plot", "evaluate"}
              /\ pc = "returned"
              /\ result = "trained"
    /\ files.model_output_file # artifact0 => Count("save") = 1
    /\ Count("save") = 1 => files.model_output_file = "trained"
    /\ pc = "raised" =>
          /\ Count("save") = 0
          /\ files.model_output_file = artifact0
    /\ (pc = "returned" /\ result = "trained") =>
          /\ Count("save") = 1
          /\ files.model_output_file = "trained"

C10_Witness ==
    /\ pc = "returned"
    /\ result = "trained"
    /\ env.steps >= 2
    /\ log[Len(log)].op = "save"
    /\ artifact0 = "absent"

\* ---- claims about load_training_data (checked under SpecData)

C6_BuildShapes ==
    cellPhase \in {"built", "build_failed"} =>
        LET s == cell.state_size[2]
            twin == build(S_RNNCell(cell.units, s, ~cell.self_input,
                                    cell.z_dim, cell.a_dim), input_shape).weights
        IN IF Len(input_shape) = 2 /\ input_shape[2] = cell.z_dim + cell.a_dim
           THEN /\ cellPhase = "built"
                /\ weights =
                     << [name |-> "A", shape |-> <<s, s>>],
                        [name |-> "B", shape |-> <<s, s>>],
                        [name |-> "C", shape |->
                           <<cell.z_dim + (IF cell.self_input THEN 1 ELSE 0), s>>],
                        [name |-> "D", shape |-> <<cell.a_dim, s>>],
                        [name |-> "E", shape |-> <<s, cell.units>>],
                        [name |-> "bias", shape |-> <<s>>] >>
                /\ Len(twin) = Len(weights)
                /\ \A i \in 1..Len(weights) :
                      /\ twin[i].name = weights[i].name
                      /\ weights[i].name # "C" => twin[i].shape = weights[i].shape
                      /\ weights[i].name = "C" =>
                            /\ twin[i].shape[2] = weights[i].shape[2]
                            /\ weights[i].shape[1] - twin[i].shape[1]
                                  = (IF cell.self_input THEN 1 ELSE -1)
           ELSE /\ cellPhase = "build_failed"
                /\ weights = << >>

C6_Witness ==
    /\ cellPhase = "built"
    /\ cell.self_input
    /\ cell.units = 2
    /\ cell.state_size[2] = 1
    /\ Shape(weights, "C") = <<cell.z_dim + 1, 1>>

\* C8: the cell made from get_config's values has the same units,
\* state_size, self_input, z_dim and a_dim as the original (get_config
\* reports the hidden-state dimension, the second entry of the state pair)
\* and therefore gets the same weight shapes when built.
C8_ConfigRoundTrip ==
    cellPhase \in {"constructed", "built"} =>
        /\ get_config(cell).state_size = cell.state_size[2]
        /\ restored # None =>
              /\ restored.units = cell.units
              /\ restored.state_size = cell.state_size
              /\ restored.self_input = cell.self_input
              /\ restored.z_dim = cell.z_dim
              /\ restored.a_dim = cell.a_dim
              /\ restored.output_size = cell.output_size
              /\ build(restored, <<1, cell.z_dim + cell.a_dim>>)
                    = build(cell, <<1, cell.z_dim + cell.a_dim>>)

C8_Witness ==
    /\ restored # None
    /\ cell.units = 2
    /\ cell.state_size = <<2, 1>>
    /\ restored.state_size = <<2, 1>>
    /\ cellPhase = "built"

\* C9: for every built cell the transition is dimensionally consistent with
\* the weights: the (possibly extended) z has as many entries as C has rows,
\* a as many as D has rows, the next state pair has dimensions
\* (units, state_size), and the transition can be applied.
C9_TransitionConsistent ==
    cellPhase = "built" =>
        LET r == call(cell, weights, input_shape[2], states) IN
        /\ r.z = Shape(weights, "C")[1]
        /\ r.a = Shape(weights, "D")[1]
        /\ r.ok
        /\ r.states = cell.state_size

\* what holds instead: the transition is consistent exactly when the
\* previous output adds one entry to z, i.e. without self_input or with
\* units = 1
C9_ConsistentIffOneOutput ==
    cellPhase = "built" =>
        LET r == call(cell, weights, input_shape[2], states) IN
        /\ r.a = Shape(weights, "D")[1]
        /\ r.ok <=> (~cell.self_input \/ cell.units = 1)
        /\ r.ok => r.z = Shape(weights, "C")[1] /\ r.states = cell.state_size
        /\ ~r.ok => r.z = Shape(weights, "C")[1] + cell.units - 1

====
